---- MODULE Spec2Model ----
(***************************************************************************)
(* Model of spanner_demo/snippets.py: the Albums/Singers tables written by *)
(* insert_data and update_data, and read_write_transaction, whose callback *)
(* update_albums is run by database.run_in_transaction.  Each client is    *)
(* one caller of read_write_transaction; a client's steps are the          *)
(* callback's interactions with the database (two reads, one buffered      *)
(* update, the commit) with the local code between them.                   *)
(*                                                                         *)
(* The database itself is the Cloud Spanner service: a read-write          *)
(* transaction buffers its mutations until commit, a commit applies them   *)
(* atomically, a transaction whose reads were overwritten by another       *)
(* commit is ABORTED, and run_in_transaction re-runs the callback on       *)
(* ABORTED until its deadline, after which ABORTED reaches the caller.     *)
(***************************************************************************)
EXTENDS Integers, Sequences, FiniteSets, TLC

\* ------------------------------------------------------------- bounds
NumClients == 2
MaxAttempts == 2
MaxInvocations == 3

\* ------------------------------------------------- program constants
transfer_amount == 200000
Threshold == 300000

Clients == 1..NumClients

K11 == <<1, 1>>
K22 == <<2, 2>>
TransferKeys == {K11, K22}

\* insert_data: the rows of Singers (SingerId -> FirstName, LastName)
SingersData ==
    [s \in 1..5 |->
        CASE s = 1 -> <<"Marc", "Richards">>
          [] s = 2 -> <<"Catalina", "Smith">>
          [] s = 3 -> <<"Alice", "Trentor">>
          [] s = 4 -> <<"Lea", "Martin">>
          [] s = 5 -> <<"David", "Lomond">>]

\* insert_data: the rows of Albums ((SingerId, AlbumId) -> AlbumTitle)
AlbumKeys == {<<1, 1>>, <<1, 2>>, <<2, 1>>, <<2, 2>>, <<2, 3>>}

AlbumTitles ==
    [k \in AlbumKeys |->
        CASE k = <<1, 1>> -> "Total Junk"
          [] k = <<1, 2>> -> "Go, Go, Go"
          [] k = <<2, 1>> -> "Green"
          [] k = <<2, 2>> -> "Forever Hold Your Peace"
          [] k = <<2, 3>> -> "Terrified"]

\* update_data: the budgets it writes to rows (1,1) and (2,2)
UpdateDataValues == {[key |-> K11, budget |-> 100000], [key |-> K22, budget |-> 500000]}

\* MarketingBudget values the two rows may hold before the first transfer
InitBudgets11 == {0, 100000}
InitBudgets22 == {0, 100000, 250000, 299999, 300000, 500000}

VARIABLES
    Singers,              \* table Singers
    Albums,               \* table Albums: key -> [AlbumTitle, MarketingBudget]
    pc,                   \* each caller's position in read_write_transaction
    second_album_budget,  \* the callback's local variables
    first_album_budget,
    mutations,            \* the transaction's buffered update
    readSet,              \* keys the transaction has read
    aborted,              \* the database has aborted the transaction
    attempts,             \* runs of the callback in this invocation
    outcome,              \* how the invocation ended
    applied,              \* commits applied for this invocation
    history               \* outcomes of the finished invocations, in order

vars == <<Singers, Albums, pc, second_album_budget, first_album_budget,
          mutations, readSet, aborted, attempts, outcome, applied, history>>

Budget(k) == Albums[k].MarketingBudget

\* ------------------------------------------------------- pure helpers

\* the test against the amount instead of the threshold
InsufficientFunds_wrongLimit(b) == b < transfer_amount

\* the test with the comparison turned around
InsufficientFunds_inverted(b) == b > Threshold

\* the test made non-strict
InsufficientFunds_nonStrict(b) == b <= Threshold

\* line 130: if second_album_budget < 300000
InsufficientFunds(b) == b < Threshold

\* the two rows written one by one, the second write lost
ApplyUpdate_firstRowOnly(table, muts) ==
    [k \in DOMAIN table |->
        IF k = <<1, 1>> /\ \E m \in muts : m.key = k
        THEN [table[k] EXCEPT !.MarketingBudget =
                 (CHOOSE m \in muts : m.key = k).budget]
        ELSE table[k]]

\* transaction.replace in place of transaction.update: the columns not
\* named become NULL
ApplyUpdate_replace(table, muts) ==
    [k \in DOMAIN table |->
        IF \E m \in muts : m.key = k
        THEN [AlbumTitle |-> "NULL",
              MarketingBudget |-> (CHOOSE m \in muts : m.key = k).budget]
        ELSE table[k]]

\* transaction.update / batch.update with columns
\* (SingerId, AlbumId, MarketingBudget): only that column of the keyed rows
ApplyUpdate(table, muts) ==
    [k \in DOMAIN table |->
        IF \E m \in muts : m.key = k
        THEN [table[k] EXCEPT !.MarketingBudget =
                 (CHOOSE m \in muts : m.key = k).budget]
        ELSE table[k]]

Keys(muts) == {m.key : m \in muts}

\* a commit writing keys ks aborts every other transaction that read one
Wound(writer, ks) ==
    [d \in Clients |->
        IF d # writer /\ readSet[d] \cap ks # {} THEN TRUE ELSE aborted[d]]

\* line 145: second_album_budget -= transfer_amount
NewSecond(b) == b - transfer_amount

\* the credit written as a debit
NewFirst_subtracts(b) == b - transfer_amount

\* line 146: first_album_budget += transfer_amount
NewFirst(b) == b + transfer_amount

\* lines 152-159: transaction.update of rows (1,1) and (2,2), buffered
StagedUpdate(first, second) ==
    {[key |-> K11, budget |-> first], [key |-> K22, budget |-> second]}

\* ------------------------------------------------------------- Init
TableOf(present, b11, b22) ==
    [k \in present |->
        [AlbumTitle |-> AlbumTitles[k],
         MarketingBudget |-> IF k = K11 THEN b11 ELSE IF k = K22 THEN b22 ELSE 0]]

InitClients ==
    /\ pc = [c \in Clients |-> "idle"]
    /\ second_album_budget = [c \in Clients |-> 0]
    /\ first_album_budget = [c \in Clients |-> 0]
    /\ mutations = [c \in Clients |-> {}]
    /\ readSet = [c \in Clients |-> {}]
    /\ aborted = [c \in Clients |-> FALSE]
    /\ attempts = [c \in Clients |-> 0]
    /\ outcome = [c \in Clients |-> "None"]
    /\ applied = [c \in Clients |-> 0]
    /\ history = <<>>

Init ==
    /\ Singers = SingersData
    /\ \E missing \in SUBSET TransferKeys, b11 \in InitBudgets11, b22 \in InitBudgets22 :
          Albums = TableOf(AlbumKeys \ missing, b11, b22)
    /\ InitClients

\* ---------------------------------------------------------- actions

\* the transaction's state is dropped (rollback, or a fresh attempt)
ClearTxn(c) ==
    /\ mutations' = [mutations EXCEPT ![c] = {}]
    /\ readSet' = [readSet EXCEPT ![c] = {}]
    /\ aborted' = [aborted EXCEPT ![c] = FALSE]
    /\ second_album_budget' = [second_album_budget EXCEPT ![c] = 0]
    /\ first_album_budget' = [first_album_budget EXCEPT ![c] = 0]

\* the exception caught inside read_write_transaction, which then returns
Raise_swallowed(c, e) ==
    /\ pc' = [pc EXCEPT ![c] = "done"]
    /\ outcome' = [outcome EXCEPT ![c] = e]
    /\ history' = Append(history, e)
    /\ ClearTxn(c)
    /\ UNCHANGED <<Singers, Albums, attempts, applied>>

\* the exception e leaves update_albums, run_in_transaction rolls back and
\* e leaves read_write_transaction: line 163 is not reached
Raise(c, e) ==
    /\ pc' = [pc EXCEPT ![c] = "raised"]
    /\ outcome' = [outcome EXCEPT ![c] = e]
    /\ history' = Append(history, e)
    /\ ClearTxn(c)
    /\ UNCHANGED <<Singers, Albums, attempts, applied>>

\* a caller enters read_write_transaction; run_in_transaction begins
Begin(c) ==
    /\ pc[c] \in {"idle", "done", "raised"}
    /\ Len(history) + Cardinality({d \in Clients : pc[d] \notin {"idle", "done", "raised"}})
          < MaxInvocations
    /\ pc' = [pc EXCEPT ![c] = "read2"]
    /\ attempts' = [attempts EXCEPT ![c] = 1]
    /\ outcome' = [outcome EXCEPT ![c] = "None"]
    /\ applied' = [applied EXCEPT ![c] = 0]
    /\ ClearTxn(c)
    /\ UNCHANGED <<Singers, Albums, history>>

\* row (2,2) read outside the transaction (a snapshot read): the
\* transaction does not cover it
ReadSecond_untracked(c) ==
    /\ pc[c] = "read2"
    /\ IF K22 \notin DOMAIN Albums
       THEN Raise(c, "IndexError")
       ELSE IF InsufficientFunds(Budget(K22))
       THEN Raise(c, "ValueError")
       ELSE /\ second_album_budget' = [second_album_budget EXCEPT ![c] = Budget(K22)]
            /\ pc' = [pc EXCEPT ![c] = "read1"]
            /\ UNCHANGED <<Singers, Albums, first_album_budget, mutations, aborted,
                           readSet, attempts, outcome, applied, history>>

\* a missing row (2,2) read as budget 0 instead of failing
ReadSecond_missingAsZero(c) ==
    /\ pc[c] = "read2"
    /\ IF InsufficientFunds(IF K22 \in DOMAIN Albums THEN Budget(K22) ELSE 0)
       THEN Raise(c, "ValueError")
       ELSE /\ second_album_budget' = [second_album_budget EXCEPT ![c] = Budget(K22)]
            /\ readSet' = [readSet EXCEPT ![c] = @ \cup {K22}]
            /\ pc' = [pc EXCEPT ![c] = "read1"]
            /\ UNCHANGED <<Singers, Albums, first_album_budget, mutations, aborted,
                           attempts, outcome, applied, history>>

\* lines 121-134: read row (2,2), then the threshold test
ReadSecond(c) ==
    /\ pc[c] = "read2"
    /\ IF K22 \notin DOMAIN Albums
       THEN Raise(c, "IndexError")
       ELSE IF InsufficientFunds(Budget(K22))
       THEN Raise(c, "ValueError")
       ELSE /\ second_album_budget' = [second_album_budget EXCEPT ![c] = Budget(K22)]
            /\ readSet' = [readSet EXCEPT ![c] = @ \cup {K22}]
            /\ pc' = [pc EXCEPT ![c] = "read1"]
            /\ UNCHANGED <<Singers, Albums, first_album_budget, mutations, aborted,
                           attempts, outcome, applied, history>>

\* lines 137-159: read row (1,1), compute the budgets, buffer the update
ReadFirst(c) ==
    /\ pc[c] = "read1"
    /\ IF K11 \notin DOMAIN Albums
       THEN Raise(c, "IndexError")
       ELSE /\ first_album_budget' =
                  [first_album_budget EXCEPT ![c] = NewFirst(Budget(K11))]
            /\ second_album_budget' =
                  [second_album_budget EXCEPT ![c] = NewSecond(@)]
            /\ mutations' =
                  [mutations EXCEPT ![c] =
                      StagedUpdate(first_album_budget'[c], second_album_budget'[c])]
            /\ readSet' = [readSet EXCEPT ![c] = @ \cup {K11}]
            /\ pc' = [pc EXCEPT ![c] = "commit"]
            /\ UNCHANGED <<Singers, Albums, aborted, attempts, outcome, applied, history>>

\* line 161-163: the callback returned, run_in_transaction commits
Commit(c) ==
    /\ pc[c] = "commit"
    /\ ~aborted[c]
    /\ Albums' = ApplyUpdate(Albums, mutations[c])
    /\ aborted' = Wound(c, Keys(mutations[c]))
    /\ applied' = [applied EXCEPT ![c] = @ + 1]
    /\ pc' = [pc EXCEPT ![c] = "done"]
    /\ outcome' = [outcome EXCEPT ![c] = "Committed"]
    /\ history' = Append(history, "Committed")
    /\ UNCHANGED <<Singers, second_album_budget, first_album_budget, mutations,
                   readSet, attempts>>

\* only the commit is tried again, with the update computed from the
\* earlier reads
Retry_commitOnly(c) ==
    /\ pc[c] = "commit"
    /\ aborted[c]
    /\ attempts[c] < MaxAttempts
    /\ attempts' = [attempts EXCEPT ![c] = @ + 1]
    /\ aborted' = [aborted EXCEPT ![c] = FALSE]
    /\ UNCHANGED <<Singers, Albums, pc, second_album_budget, first_album_budget,
                   mutations, readSet, outcome, applied, history>>

\* line 161: the commit is refused with ABORTED; the callback runs again
Retry(c) ==
    /\ pc[c] = "commit"
    /\ aborted[c]
    /\ attempts[c] < MaxAttempts
    /\ attempts' = [attempts EXCEPT ![c] = @ + 1]
    /\ pc' = [pc EXCEPT ![c] = "read2"]
    /\ ClearTxn(c)
    /\ UNCHANGED <<Singers, Albums, outcome, applied, history>>

\* line 161: ABORTED past run_in_transaction's deadline reaches the caller
GiveUp(c) ==
    /\ pc[c] = "commit"
    /\ aborted[c]
    /\ attempts[c] >= MaxAttempts
    /\ Raise(c, "Aborted")

\* the database aborts a running transaction on its own (transient)
StoreAbort(c) ==
    /\ pc[c] \in {"read1", "commit"}
    /\ ~aborted[c]
    /\ aborted' = [aborted EXCEPT ![c] = TRUE]
    /\ UNCHANGED <<Singers, Albums, pc, second_album_budget, first_album_budget,
                   mutations, readSet, attempts, outcome, applied, history>>

\* lines 193-200: update_data's batch
UpdateData ==
    /\ TransferKeys \subseteq DOMAIN Albums
    /\ Albums' = ApplyUpdate(Albums, UpdateDataValues)
    /\ aborted' = Wound(0, Keys(UpdateDataValues))
    /\ UNCHANGED <<Singers, pc, second_album_budget, first_album_budget,
                   mutations, readSet, attempts, outcome, applied, history>>

Next ==
    \/ \E c \in Clients : Begin(c)
    \/ \E c \in Clients : ReadSecond(c)
    \/ \E c \in Clients : ReadFirst(c)
    \/ \E c \in Clients : Commit(c)
    \/ \E c \in Clients : Retry(c)
    \/ \E c \in Clients : GiveUp(c)
    \/ \E c \in Clients : StoreAbort(c)
    \/ UpdateData

Spec == Init /\ [][Next]_vars

\* ------------------------------------------- sequential invocations
\* the state update_data leaves: insert_data's rows with budgets
\* 100000 for (1,1) and 500000 for (2,2)
InitSeq ==
    /\ Singers = SingersData
    /\ Albums = ApplyUpdate(TableOf(AlbumKeys, 0, 0), UpdateDataValues)
    /\ InitClients

Finished(c) == pc[c] \in {"idle", "done", "raised"}

\* read_write_transaction is called again only after the previous call ended
BeginSeq(c) ==
    /\ \A d \in Clients : Finished(d)
    /\ Begin(c)

NextSeq ==
    \/ \E c \in Clients : BeginSeq(c)
    \/ \E c \in Clients : ReadSecond(c)
    \/ \E c \in Clients : ReadFirst(c)
    \/ \E c \in Clients : Commit(c)
    \/ \E c \in Clients : Retry(c)
    \/ \E c \in Clients : GiveUp(c)
    \/ \E c \in Clients : StoreAbort(c)

SpecSeq == InitSeq /\ [][NextSeq]_vars

\* ------------------------------------------------ steps and readings
\* client c's commit is applied in this step
CommitStep(c) == pc[c] = "commit" /\ pc'[c] = "done"

\* row k's MarketingBudget differs after this step
Changed(k) == k \in DOMAIN Albums /\ Albums'[k] # Albums[k]

Total == Budget(K11) + Budget(K22)

\* the outcomes of the invocations the database did not abort
NotStoreAbort(e) == e # "Aborted"
Completed == SelectSeq(history, NotStoreAbort)

IsCommitted(e) == e = "Committed"
NumCommitted == Len(SelectSeq(history, IsCommitted))

\* ------------------------------------------------------------ claims

\* C1: a committed transfer, which only happens with row (2,2) at or above
\* the threshold, leaves row (1,1) at its old budget plus 200000 and row
\* (2,2) at its old budget minus 200000, so the sum of the two is unchanged.
C1_CommitMovesAmount ==
    [][\A c \in Clients :
          CommitStep(c) =>
             /\ Budget(K22) >= Threshold
             /\ Albums'[K11].MarketingBudget = Budget(K11) + transfer_amount
             /\ Albums'[K22].MarketingBudget = Budget(K22) - transfer_amount
             /\ Albums'[K11].MarketingBudget + Albums'[K22].MarketingBudget = Total]_vars

C1_Witness ==
    \E c \in Clients :
        /\ pc[c] = "done"
        /\ applied[c] = 1
        /\ Budget(K11) = first_album_budget[c]
        /\ Budget(K22) = second_album_budget[c]

\* C2: when the transfer reads row (2,2) with a budget strictly below the
\* threshold it ends with the insufficient-funds error and the store is
\* what it was: no row is modified by that step or by the invocation.
C2_BelowThresholdAborts ==
    [][\A c \in Clients :
          /\ (/\ pc[c] = "read2"
              /\ pc'[c] # "read2"
              /\ K22 \in DOMAIN Albums
              /\ Budget(K22) < Threshold)
             => /\ outcome'[c] = "ValueError"
                /\ Albums' = Albums
                /\ Singers' = Singers
          /\ outcome'[c] = "ValueError" => applied'[c] = 0]_vars

C2_Witness ==
    \E c \in Clients :
        /\ outcome[c] = "ValueError"
        /\ K22 \in DOMAIN Albums
        /\ Budget(K22) = 250000
        /\ applied[c] = 0

\* C3 (as claimed): an insufficient-funds abort is handed to the caller as
\* a normal outcome: read_write_transaction returns normally.
C3_AbortIsNormalReturn ==
    \A c \in Clients : outcome[c] = "ValueError" => pc[c] = "done"

\* C3 (amended): an insufficient-funds abort reaches the caller as a
\* propagated ValueError that ends read_write_transaction before its last
\* statement; the function returns normally only after a commit.
C3_AbortIsRaised ==
    \A c \in Clients :
        /\ outcome[c] = "ValueError" => pc[c] = "raised"
        /\ pc[c] = "done" => outcome[c] = "Committed"

C3_Witness ==
    \E c \in Clients : outcome[c] = "ValueError" /\ pc[c] = "raised"

\* C4: every step a transfer takes (its reads, its staged update, its
\* commit, its rollback) changes either both budgets or neither: the store
\* never shows exactly one of the two rows changed, and only a commit
\* changes them.
C4_BothOrNeither ==
    [][pc' # pc =>
          /\ Changed(K11) <=> Changed(K22)
          /\ Albums' # Albums => \E c \in Clients : CommitStep(c)]_vars

C4_Witness ==
    \E c, d \in Clients :
        /\ c # d
        /\ pc[c] = "done"
        /\ applied[c] = 1
        /\ pc[d] = "commit"
        /\ mutations[d] # {}
        /\ Budget(K22) # second_album_budget[d] + transfer_amount

\* C5: a transfer commits only on the basis of reads that are still
\* current: at its commit the two budgets in the store are the ones it
\* read, so of two transfers that read the same debited budget at most one
\* commits on it and the row is never debited twice from one stale read.
C5_CommitOnCurrentRead ==
    [][\A c \in Clients :
          CommitStep(c) =>
             /\ Budget(K22) = second_album_budget[c] + transfer_amount
             /\ Budget(K11) = first_album_budget[c] - transfer_amount
             /\ \A d \in Clients \ {c} :
                   (pc[d] = "commit" /\ second_album_budget[d] = second_album_budget[c])
                      => ~CommitStep(d) /\ aborted'[d]]_vars

C5_Witness ==
    \E c, d \in Clients :
        /\ c # d
        /\ pc[c] = "done"
        /\ second_album_budget[c] = 300000
        /\ Budget(K22) = 300000
        /\ pc[d] = "commit"
        /\ second_album_budget[d] = 300000
        /\ aborted[d]

\* C6: an attempt the database aborts leaves no write behind, and the
\* attempt that commits after any number of retries applies the transfer
\* exactly once: the sum of the two budgets is unchanged and each budget
\* moves by 200000 from the value that attempt read.
C6_RetryAppliesOnce ==
    [][\A c \in Clients :
          /\ (pc[c] = "commit" /\ pc'[c] \in {"read2", "raised"}) => Albums' = Albums
          /\ (CommitStep(c) /\ attempts[c] > 1) =>
                /\ Albums'[K11].MarketingBudget + Albums'[K22].MarketingBudget = Total
                /\ Albums'[K22].MarketingBudget = Budget(K22) - transfer_amount
                /\ Albums'[K11].MarketingBudget = Budget(K11) + transfer_amount
                /\ Albums'[K22].MarketingBudget = second_album_budget[c]
                /\ Albums'[K11].MarketingBudget = first_album_budget[c]
          /\ applied'[c] <= 1
          /\ outcome'[c] = "Committed" <=> applied'[c] = 1]_vars

C6_Witness ==
    \E c \in Clients :
        /\ pc[c] = "done"
        /\ attempts[c] > 1
        /\ applied[c] = 1
        /\ Budget(K22) = second_album_budget[c]

\* C7: a transfer that reads a key missing from Albums ends with an
\* exception that reaches the caller, and writes nothing; while row (1,1)
\* is missing no step changes the table, so row (2,2) is never debited.
C7_MissingRowNoWrite ==
    [][/\ \A c \in Clients :
             /\ (pc[c] = "read2" /\ pc'[c] # "read2" /\ K22 \notin DOMAIN Albums)
                   => pc'[c] = "raised" /\ outcome'[c] = "IndexError" /\ Albums' = Albums
             /\ (pc[c] = "read1" /\ pc'[c] # "read1" /\ K11 \notin DOMAIN Albums)
                   => pc'[c] = "raised" /\ outcome'[c] = "IndexError" /\ Albums' = Albums
             /\ outcome'[c] = "IndexError" => applied'[c] = 0
       /\ TransferKeys \ DOMAIN Albums # {} => Albums' = Albums]_vars

C7_Witness ==
    \E c \in Clients :
        /\ outcome[c] = "IndexError"
        /\ K11 \notin DOMAIN Albums
        /\ K22 \in DOMAIN Albums
        /\ Budget(K22) >= Threshold

\* C8: every row's budget is a non-negative integer in every state reached
\* from non-negative budgets, whatever transfers ran.
C8_BudgetsNonNegative ==
    \A k \in DOMAIN Albums : Budget(k) \in Nat

C8_Witness ==
    \E c \in Clients :
        /\ pc[c] = "done"
        /\ applied[c] = 1
        /\ Budget(K22) = Threshold - transfer_amount
        /\ Budget(K22) = second_album_budget[c]

\* C9: no step changes anything but the MarketingBudget of rows (1,1) and
\* (2,2): the Singers table, the set of Albums rows, every other Albums row
\* and the AlbumTitle of every row stay as they are.
C9_OnlyTwoBudgetsChange ==
    [][/\ Singers' = Singers
       /\ DOMAIN Albums' = DOMAIN Albums
       /\ \A k \in DOMAIN Albums :
             /\ Albums'[k].AlbumTitle = Albums[k].AlbumTitle
             /\ k \notin TransferKeys => Albums'[k] = Albums[k]]_vars

C9_Witness ==
    \E c \in Clients :
        /\ pc[c] = "done"
        /\ applied[c] = 1
        /\ Albums[K11].AlbumTitle = "Total Junk"
        /\ Albums[K22].AlbumTitle = "Forever Hold Your Peace"
        /\ Budget(K11) = first_album_budget[c]

\* C10: from update_data's state (100000, 500000), sequential invocations
\* that the database does not abort commit exactly twice, reaching
\* (300000, 300000) and then (500000, 100000): the second commit happens at
\* a debited budget equal to the threshold; every later one ends with the
\* insufficient-funds error and leaves (500000, 100000).
C10_TwoCommitsThenAbort ==
    /\ \A i \in DOMAIN Completed :
          Completed[i] = IF i <= 2 THEN "Committed" ELSE "ValueError"
    /\ NumCommitted <= 2
    /\ Budget(K11) = 100000 + NumCommitted * transfer_amount
    /\ Budget(K22) = 500000 - NumCommitted * transfer_amount

C10_Witness ==
    /\ Len(Completed) >= 3
    /\ Completed[3] = "ValueError"
    /\ Budget(K11) = 500000
    /\ Budget(K22) = 100000

====
